---- MODULE Spec2Model ----
(***************************************************************************)
(* State-machine model of the haproxy-operator charm (src/src/charm.py):   *)
(* the event handlers of HAProxyCharm, the mode resolver _validate_state,  *)
(* the reconciliation driver _reconcile and the certificate reconciliation *)
(* _reconcile_certificates.  One action per handler; the environment       *)
(* (operator, related applications, certificate provider) changes the      *)
(* facts the handlers read and queues the signals they are delivered.      *)
(*                                                                         *)
(* state/validation.py, state/tls.py and tls_relation.py are not part of   *)
(* the sources at hand: validate_config_and_tls, TLSInformation and the    *)
(* TLSRelationService operations are modelled from spec.md (sections 3,    *)
(* 4.2, 4.4) and are marked so in MODEL_MAP.json.                          *)
(***************************************************************************)
EXTENDS Integers, Sequences, FiniteSets, TLC

(* ------------------------------ bounds -------------------------------- *)

\* Number of environment steps (configuration changes, relation joins and
\* departures, certificate expiry notices, action invocations) in a run.
MaxEnv == 2

\* Number of hostname changes and certificate expiry notices in a run of
\* the certificate lifecycle on its own (LiveSpec).
MaxLiveEnv == 3

(* ------------------------- program constants -------------------------- *)

INGRESS_RELATION == "ingress"
TLS_CERT_RELATION == "certificates"
REVERSE_PROXY_RELATION == "reverseproxy"

\* class ProxyMode(StrEnum)
INGRESS == "ingress"
LEGACY == "legacy"
NOPROXY == "noproxy"
INVALID == "invalid"

\* Values of the external-hostname option: two well-formed hostnames, and
\* NoHost for an unset or malformed one.
Hostnames == {"h1", "h2"}
NoHost == ""

\* The ingress consumer's application data (integration_data.app).
AppModel == "model"
AppName == "app"

NoCert == [id |-> 0, host |-> NoHost]
NoUrl == <<>>
NoMode == "none"
NoResult == "none"

(* ------------------------------ state --------------------------------- *)

VARIABLES
    installed,       \* the install hook has run
    hostname,        \* config option external-hostname
    configValid,     \* CharmConfig.from_charm succeeds
    ingressRelated,  \* bool(self._ingress_provider.relations)
    legacyRelated,   \* bool(self.reverseproxy_requirer.relations)
    certRelated,     \* the certificates relation exists
    providerCerts,   \* self.certificates.get_provider_certificates()
    nextId,          \* identity of the next certificate the provider issues
    csrOut,          \* signing requests the provider has not answered, per hostname
    revOut,          \* certificates whose revocation the provider has not answered
    tracked,         \* certificates recorded on the unit
    expiring,        \* certificates marked EXPIRING
    status,          \* self.unit.status
    publishedUrl,    \* URL in the ingress relation data
    haproxyConfig,   \* mode of the configuration haproxy_service built last
    pending,         \* signals queued for delivery
    pass,            \* what the handler that ran last did (NoPass once the environment moved on)
    quiet,           \* the last step was a completed _reconcile_certificates
    envSteps         \* environment steps taken

envVars == <<hostname, configValid, ingressRelated, legacyRelated, certRelated,
             providerCerts, nextId, envSteps>>
unitVars == <<status, csrOut, revOut, tracked, expiring, publishedUrl, haproxyConfig>>
vars == <<installed, envVars, unitVars, pending, pass, quiet>>

(* ----------------------------- statuses ------------------------------- *)

\* A status message is the sequence of its words, so that what a message
\* names can be read off it.
ActiveStatus == [kind |-> "active", msg |-> <<>>]
BlockedStatus(msg) == [kind |-> "blocked", msg |-> msg]
MaintenanceStatus(msg) == [kind |-> "maintenance", msg |-> msg]

InstallMsg == <<"Waiting for haproxy to be configured.">>
BothRelatedMsg == <<"Both", INGRESS_RELATION, "and", REVERSE_PROXY_RELATION, "is related.">>
WaitingCertMsg(h) == <<"Waiting for new certificate for hostname:", h>>
InvalidConfigMsg == <<"Invalid charm configuration.">>
TLSNotReadyMsg ==
    IF hostname = NoHost THEN <<"Invalid hostname configuration.">>
    ELSE <<TLS_CERT_RELATION, "relation not ready.">>

(* ------------------------- external collaborators --------------------- *)

\* TLSInformation.validate: succeeds iff the hostname is present and
\* well-formed and the certificates relation is there.
TLSReady == hostname # NoHost /\ certRelated

get_hostname_from_cert(c) == c.host

\* A call the handler makes on a collaborator; arg tells a request that
\* repeats one the provider has not answered yet from a first one.
First == "first"
Repeated == "repeated"
Entry(op, c, h, arg) == [op |-> op, cert |-> c, host |-> h, arg |-> arg]
Do(s, e) == [s EXCEPT !.log = Append(@, e)]

\* self.certificates.request_certificate_revocation(csr of certificate c)
request_certificate_revocation(s, c) ==
    [Do(s, Entry("request_certificate_revocation", c.id, c.host,
                 IF c.id \in s.revOut THEN Repeated ELSE First))
        EXCEPT !.revOut = @ \cup {c.id}]

\* self._tls.generate_private_key(hostname)
generate_private_key(s, h) ==
    Do(s, Entry("generate_private_key", 0, h, First))

\* self._tls.request_certificate(hostname): a new signing request goes out.
request_certificate(s, h) ==
    [Do(s, Entry("request_certificate", 0, h,
                 IF s.csrOut[h] > 0 THEN Repeated ELSE First))
        EXCEPT !.csrOut[h] = @ + 1]

\* self._tls.certificate_available(certificate): record the certificate; it
\* supersedes a recorded certificate of the same hostname.
certificate_available(s, c) ==
    [s EXCEPT !.tracked = {t \in @ : t.host # c.host} \cup {c},
              !.expiring = {t \in @ : t.host # c.host}]

\* self._tls.certificate_expiring(certificate): mark EXPIRING, revoke nothing.
certificate_expiring(s, c) ==
    [s EXCEPT !.expiring = @ \cup {c}]

\* self._tls.certificate_invalidated(certificate): drop the certificate and
\* request a fresh one for its hostname.
certificate_invalidated(s, c) ==
    LET dropped == [s EXCEPT !.tracked = @ \ {c}, !.expiring = @ \ {c}]
        h == get_hostname_from_cert(c)
    IN  request_certificate(generate_private_key(dropped, h), h)

\* self._tls.all_certificate_invalidated(): drop every recorded certificate
\* and request a fresh one for the desired hostname (when there is one to
\* request it for).
all_certificate_invalidated(s) ==
    LET dropped == [s EXCEPT !.tracked = {}, !.expiring = {}]
    IN  IF TLSReady
        THEN request_certificate(generate_private_key(dropped, hostname), hostname)
        ELSE dropped

RECURSIVE LastWithHostname(_, _)
LastWithHostname(certs, h) ==
    IF certs = <<>> THEN NoCert
    ELSE IF certs[Len(certs)].host = h THEN certs[Len(certs)]
    ELSE LastWithHostname(SubSeq(certs, 1, Len(certs) - 1), h)

\* self._tls.get_provider_cert_with_hostname(hostname)
get_provider_cert_with_hostname(h) == LastWithHostname(providerCerts, h)

\* f"https://{external_hostname}/{model}-{name}/"
IngressUrl(h, model, name) == <<"https://", h, "/", model, "-", name, "/">>

(* --------------------------- mode resolver ---------------------------- *)

\* Mutant: the TLS validator is never consulted.
validate_state_ignoring_tls(is_ingress_related, is_legacy_related, tls_ok) ==
    IF is_ingress_related /\ is_legacy_related THEN INVALID
    ELSE IF is_ingress_related THEN INGRESS
    ELSE IF is_legacy_related THEN LEGACY
    ELSE NOPROXY

\* Mutant: the legacy relation is looked at before the ingress relation.
validate_state_legacy_first(is_ingress_related, is_legacy_related, tls_ok) ==
    IF is_ingress_related /\ is_legacy_related THEN INVALID
    ELSE IF is_legacy_related THEN LEGACY
    ELSE IF is_ingress_related /\ tls_ok THEN INGRESS
    ELSE NOPROXY

\* Mutant: the TLS validator is consulted whatever the relations are.
validate_state_tls_first(is_ingress_related, is_legacy_related, tls_ok) ==
    IF ~tls_ok THEN INVALID
    ELSE IF is_ingress_related /\ is_legacy_related THEN INVALID
    ELSE IF is_ingress_related THEN INGRESS
    ELSE IF is_legacy_related THEN LEGACY
    ELSE NOPROXY

_validate_state(is_ingress_related, is_legacy_related, tls_ok) ==
    IF is_ingress_related /\ is_legacy_related THEN INVALID
    ELSE IF is_ingress_related
         THEN (IF tls_ok THEN INGRESS ELSE INVALID)
    ELSE IF is_legacy_related THEN LEGACY
    ELSE NOPROXY

\* The status _validate_state leaves behind.
validate_state_status(old) ==
    IF ingressRelated /\ legacyRelated THEN BlockedStatus(BothRelatedMsg)
    ELSE IF ingressRelated /\ ~TLSReady THEN BlockedStatus(TLSNotReadyMsg)
    ELSE old

(* ------------------------ reconciliation driver ----------------------- *)

\* Mutant: the default configuration is built whatever the mode.
reconcile_build_always_default(s, proxy_mode) ==
    [Do(s, Entry("reconcile_default", 0, NoHost, First))
        EXCEPT !.haproxyConfig = NOPROXY]

\* The configuration build _reconcile dispatches to for a mode.
reconcile_build(s, proxy_mode) ==
    IF proxy_mode = INGRESS
    THEN [Do(s, Entry("reconcile_ingress", 0, hostname, First))
             EXCEPT !.haproxyConfig = INGRESS]
    ELSE IF proxy_mode = LEGACY
    THEN [Do(s, Entry("reconcile_legacy", 0, NoHost, First))
             EXCEPT !.haproxyConfig = LEGACY]
    ELSE [Do(s, Entry("reconcile_default", 0, NoHost, First))
             EXCEPT !.haproxyConfig = NOPROXY]

\* Mutant: no early return on INVALID.
reconcile_without_return(s) ==
    LET proxy_mode == _validate_state(ingressRelated, legacyRelated, TLSReady)
        s1 == [s EXCEPT !.mode = proxy_mode,
                        !.status = validate_state_status(s.status)]
    IN  reconcile_build(s1, proxy_mode)

_reconcile(s) ==
    LET proxy_mode == _validate_state(ingressRelated, legacyRelated, TLSReady)
        s1 == [s EXCEPT !.mode = proxy_mode,
                        !.status = validate_state_status(s.status)]
    IN  IF s.raised THEN s
        ELSE IF proxy_mode = INVALID THEN s1
        ELSE IF ~configValid THEN [s1 EXCEPT !.raised = TRUE]
        ELSE [reconcile_build(s1, proxy_mode) EXCEPT !.status = ActiveStatus]

(* --------------------- certificate reconciliation --------------------- *)

\* Mutant: every certificate is revoked, matching or not.
reconcile_certificate_step_revoking_all(s, certificate, external_hostname) ==
    IF get_hostname_from_cert(certificate) # external_hostname
    THEN request_certificate_revocation(s, certificate)
    ELSE [request_certificate_revocation(s, certificate)
             EXCEPT !.current = {certificate}]

\* Mutant: every matching certificate is kept as current.
reconcile_certificate_step_keeping_all(s, certificate, external_hostname) ==
    IF get_hostname_from_cert(certificate) # external_hostname
    THEN request_certificate_revocation(s, certificate)
    ELSE [s EXCEPT !.current = @ \cup {certificate}]

\* One iteration of the loop over the provider's certificates.
reconcile_certificate_step(s, certificate, external_hostname) ==
    IF get_hostname_from_cert(certificate) # external_hostname
    THEN request_certificate_revocation(s, certificate)
    ELSE [s EXCEPT !.current = {certificate}]

RECURSIVE reconcile_certificate_loop(_, _, _)
reconcile_certificate_loop(s, certs, external_hostname) ==
    IF certs = <<>> THEN s
    ELSE reconcile_certificate_loop(
             reconcile_certificate_step(s, Head(certs), external_hostname),
             Tail(certs), external_hostname)

\* Mutant: nothing is requested when nothing matched.
reconcile_certificate_request_never(s, external_hostname) == s

\* What follows the loop: a key and a signing request when nothing matched.
reconcile_certificate_request(s, external_hostname) ==
    IF s.current = {}
    THEN request_certificate(generate_private_key(s, external_hostname),
                             external_hostname)
    ELSE s

_reconcile_certificates(s) ==
    IF s.raised THEN s
    ELSE IF ~TLSReady THEN [s EXCEPT !.raised = TRUE]
    ELSE [reconcile_certificate_request(
              reconcile_certificate_loop([s EXCEPT !.current = {}],
                                         providerCerts, hostname),
              hostname)
          EXCEPT !.ranCerts = TRUE]

(* ----------------------------- signals -------------------------------- *)

Sig(kind) == [kind |-> kind, cert |-> NoCert, reason |-> "", param |-> NoHost]
CertSig(kind, c, reason) == [kind |-> kind, cert |-> c, reason |-> reason, param |-> NoHost]
ActionSig(h) == [kind |-> "get_certificate_action", cert |-> NoCert, reason |-> "", param |-> h]

(* ------------------------- handler bookkeeping ------------------------ *)

\* No handler has run since the environment last acted.
NoPass ==
    [signal |-> "none", cert |-> NoCert, reason |-> "", param |-> NoHost,
     outcome |-> "None", raised |-> FALSE, log |-> <<>>, mode |-> NoMode,
     current |-> {}, ranCerts |-> FALSE, rerun |-> FALSE, result |-> NoResult]

\* The state a handler starts from: the unit's mutable state, and an empty
\* record of what the handler has done so far.
Start ==
    [status |-> status, csrOut |-> csrOut, revOut |-> revOut,
     tracked |-> tracked, expiring |-> expiring, publishedUrl |-> publishedUrl,
     haproxyConfig |-> haproxyConfig,
     log |-> <<>>, mode |-> NoMode, current |-> {},
     raised |-> FALSE, ranCerts |-> FALSE, result |-> NoResult]

\* How a pass that ran its handler body ended.
Outcome(s) ==
    IF s.mode = NoMode THEN (IF s.raised THEN "Error" ELSE "Handled")
    ELSE IF s.mode = INVALID THEN "Blocked"
    ELSE "Applied"

\* The handler returns: its effects become the unit's state.
Finish(sig, s, outcome, requeue) ==
    /\ status' = s.status
    /\ csrOut' = s.csrOut
    /\ revOut' = s.revOut
    /\ tracked' = s.tracked
    /\ expiring' = s.expiring
    /\ publishedUrl' = s.publishedUrl
    /\ haproxyConfig' = s.haproxyConfig
    /\ pending' = IF requeue THEN pending ELSE pending \ {sig}
    /\ pass' = [signal |-> sig.kind, cert |-> sig.cert, reason |-> sig.reason,
                param |-> sig.param,
                outcome |-> outcome, raised |-> s.raised,
                log |-> s.log, mode |-> s.mode,
                current |-> s.current, ranCerts |-> s.ranCerts,
                rerun |-> quiet /\ s.ranCerts, result |-> s.result]
    /\ quiet' = s.ranCerts
    /\ UNCHANGED <<installed, envVars>>

\* What the deferral policy does with a signal whose precondition is unmet:
\* re-queue it and report the unmet precondition, or drop it and leave the
\* status as the previous pass set it.
Refuse(sig, defer, msg) ==
    IF defer
    THEN Finish(sig, [Start EXCEPT !.status = BlockedStatus(msg)], "Deferred", TRUE)
    ELSE Finish(sig, Start, "Dropped", FALSE)

\* @validate_config_and_tls(defer, block_on_tls_not_ready) around a handler
\* whose body takes Start to s.
validate_config_and_tls(sig, defer, block_on_tls_not_ready, s) ==
    IF ~configValid THEN Refuse(sig, defer, InvalidConfigMsg)
    ELSE IF block_on_tls_not_ready /\ ~TLSReady THEN Refuse(sig, defer, TLSNotReadyMsg)
    ELSE Finish(sig, s, Outcome(s), FALSE)

\* Mutant: the data-removed handler is wrapped with defer=True.
policy_deferring_data_removed(kind) ==
    CASE kind \in {"config_changed", "all_certificates_invalidated",
                   "http_backend_available", "http_backend_removed"} -> <<FALSE, FALSE>>
      [] OTHER -> <<TRUE, TRUE>>

\* The deferral policy each handler is wrapped in: <<defer, block_on_tls_not_ready>>.
Policy(kind) ==
    CASE kind = "config_changed" -> <<FALSE, FALSE>>
      [] kind = "certificates_relation_joined" -> <<TRUE, TRUE>>
      [] kind = "certificate_available" -> <<TRUE, TRUE>>
      [] kind = "certificate_expiring" -> <<TRUE, TRUE>>
      [] kind = "certificate_invalidated" -> <<TRUE, TRUE>>
      [] kind = "all_certificates_invalidated" -> <<FALSE, FALSE>>
      [] kind = "http_backend_available" -> <<FALSE, FALSE>>
      [] kind = "http_backend_removed" -> <<FALSE, FALSE>>
      [] kind = "data_provided" -> <<TRUE, TRUE>>
      [] kind = "data_removed" -> <<FALSE, TRUE>>

\* A handler wrapped in its policy.
Wrapped(sig, s) ==
    validate_config_and_tls(sig, Policy(sig.kind)[1], Policy(sig.kind)[2], s)

\* A signal whose delivery now would only defer it again.
Parked(sig) ==
    /\ sig.kind \notin {"install", "get_certificate_action"}
    /\ Policy(sig.kind)[1]
    /\ ~configValid \/ (Policy(sig.kind)[2] /\ ~TLSReady)

\* The signals waiting for a handler to run.
Backlog == {sig \in pending : ~Parked(sig)}

Deliver(kind, sig) == installed /\ sig \in pending /\ sig.kind = kind

(* ------------------------------ handlers ------------------------------ *)

_on_install ==
    /\ ~installed
    /\ Sig("install") \in pending
    /\ installed' = TRUE
    /\ status' = MaintenanceStatus(InstallMsg)
    /\ pending' = pending \ {Sig("install")}
    /\ pass' = [NoPass EXCEPT !.signal = "install", !.outcome = "Handled"]
    /\ quiet' = FALSE
    /\ UNCHANGED <<envVars, csrOut, revOut, tracked, expiring, publishedUrl,
                   haproxyConfig>>

_on_config_changed ==
    \E sig \in pending :
        /\ Deliver("config_changed", sig)
        /\ Wrapped(sig, _reconcile_certificates(_reconcile(Start)))

_on_certificates_relation_joined ==
    \E sig \in pending :
        /\ Deliver("certificates_relation_joined", sig)
        /\ Wrapped(sig, _reconcile_certificates(Start))

\* TLSInformation.validate(self) at the head of a handler body.
tls_validate(s) == IF TLSReady THEN s ELSE [s EXCEPT !.raised = TRUE]

certificate_available_body(sig) ==
    LET v == tls_validate(Start)
    IN  IF v.raised THEN v ELSE _reconcile(certificate_available(v, sig.cert))

_on_certificate_available ==
    \E sig \in pending :
        /\ Deliver("certificate_available", sig)
        /\ Wrapped(sig, certificate_available_body(sig))

certificate_expiring_body(sig) ==
    LET v == tls_validate(Start)
    IN  IF v.raised THEN v
        ELSE [certificate_expiring(v, sig.cert) EXCEPT
                 !.status = MaintenanceStatus(
                                WaitingCertMsg(get_hostname_from_cert(sig.cert)))]

_on_certificate_expiring ==
    \E sig \in pending :
        /\ Deliver("certificate_expiring", sig)
        /\ Wrapped(sig, certificate_expiring_body(sig))

\* Mutant: an expired certificate is handled like a revoked one.
certificate_invalidated_body_reissuing_expired(sig) ==
    LET v == tls_validate(Start)
        a == IF sig.reason \in {"revoked", "expired"}
             THEN certificate_invalidated(v, sig.cert) ELSE v
    IN  IF v.raised THEN v
        ELSE [a EXCEPT !.status = MaintenanceStatus(
                                      WaitingCertMsg(get_hostname_from_cert(sig.cert)))]

certificate_invalidated_body(sig) ==
    LET v == tls_validate(Start)
        a == IF sig.reason = "revoked" THEN certificate_invalidated(v, sig.cert) ELSE v
        b == IF sig.reason = "expired" THEN certificate_expiring(a, sig.cert) ELSE a
    IN  IF v.raised THEN v
        ELSE [b EXCEPT !.status = MaintenanceStatus(
                                      WaitingCertMsg(get_hostname_from_cert(sig.cert)))]

_on_certificate_invalidated ==
    \E sig \in pending :
        /\ Deliver("certificate_invalidated", sig)
        /\ Wrapped(sig, certificate_invalidated_body(sig))

_on_all_certificate_invalidated ==
    \E sig \in pending :
        /\ Deliver("all_certificates_invalidated", sig)
        /\ Wrapped(sig, _reconcile(all_certificate_invalidated(Start)))

get_certificate_body(sig) ==
    LET v == tls_validate(Start)
        provider_cert == get_provider_cert_with_hostname(sig.param)
    IN  IF v.raised THEN v
        ELSE IF provider_cert # NoCert
        THEN [v EXCEPT !.result = "certificate"]
        ELSE [v EXCEPT !.result = "fail"]

_on_get_certificate_action ==
    \E sig \in pending :
        /\ Deliver("get_certificate_action", sig)
        /\ Finish(sig, get_certificate_body(sig), Outcome(get_certificate_body(sig)), FALSE)

_on_http_backend_available ==
    \E sig \in pending :
        /\ Deliver("http_backend_available", sig)
        /\ Wrapped(sig, _reconcile(Start))

_on_http_backend_removed ==
    \E sig \in pending :
        /\ Deliver("http_backend_removed", sig)
        /\ Wrapped(sig, _reconcile(Start))

\* The part of the data-provided handler after self._reconcile().
publish_url(s) ==
    IF s.raised THEN s
    ELSE IF ~TLSReady THEN [s EXCEPT !.raised = TRUE]
    ELSE [Do(s, Entry("publish_url", 0, hostname, First))
             EXCEPT !.publishedUrl = IngressUrl(hostname, AppModel, AppName)]

_on_ingress_data_provided ==
    \E sig \in pending :
        /\ Deliver("data_provided", sig)
        /\ Wrapped(sig, publish_url(_reconcile(Start)))

_on_ingress_data_removed ==
    \E sig \in pending :
        /\ Deliver("data_removed", sig)
        /\ Wrapped(sig, _reconcile(Start))

(* ---------------------------- environment ----------------------------- *)

\* Signals are handled one at a time and to completion: the environment
\* acts again once no signal is waiting for its handler.  An environment
\* step changes facts and queues the signal that tells the charm so; it
\* touches nothing the handlers own.
Idle == installed /\ Backlog = {}

EnvWithin(signals, budget) ==
    /\ Idle
    /\ envSteps < budget
    /\ envSteps' = envSteps + 1
    /\ pending' = pending \cup signals
    /\ quiet' = FALSE
    /\ pass' = NoPass
    /\ UNCHANGED <<installed, status, tracked, expiring, publishedUrl, haproxyConfig>>

EnvStep(signals) == EnvWithin(signals, MaxEnv)

\* juju config: the hostname and the other options are set.
SetConfig ==
    \E h \in Hostnames \cup {NoHost}, valid \in BOOLEAN :
        /\ EnvStep({Sig("config_changed")})
        /\ hostname' = h
        /\ configValid' = valid
        /\ UNCHANGED <<ingressRelated, legacyRelated, certRelated, providerCerts,
                       nextId, csrOut, revOut>>

IngressJoin ==
    /\ ~ingressRelated
    /\ EnvStep({Sig("data_provided")})
    /\ ingressRelated' = TRUE
    /\ UNCHANGED <<hostname, configValid, legacyRelated, certRelated, providerCerts,
                   nextId, csrOut, revOut>>

IngressLeave ==
    /\ ingressRelated
    /\ EnvStep({Sig("data_removed")})
    /\ ingressRelated' = FALSE
    /\ UNCHANGED <<hostname, configValid, legacyRelated, certRelated, providerCerts,
                   nextId, csrOut, revOut>>

LegacyJoin ==
    /\ ~legacyRelated
    /\ EnvStep({Sig("http_backend_available")})
    /\ legacyRelated' = TRUE
    /\ UNCHANGED <<hostname, configValid, ingressRelated, certRelated, providerCerts,
                   nextId, csrOut, revOut>>

LegacyLeave ==
    /\ legacyRelated
    /\ EnvStep({Sig("http_backend_removed")})
    /\ legacyRelated' = FALSE
    /\ UNCHANGED <<hostname, configValid, ingressRelated, certRelated, providerCerts,
                   nextId, csrOut, revOut>>

CertJoin ==
    /\ ~certRelated
    /\ EnvStep({Sig("certificates_relation_joined")})
    /\ certRelated' = TRUE
    /\ UNCHANGED <<hostname, configValid, ingressRelated, legacyRelated, providerCerts,
                   nextId, csrOut, revOut>>

\* The certificates relation goes away, and with it the provider's
\* certificates and everything asked of the provider.
CertLeave ==
    /\ certRelated
    /\ EnvStep({Sig("all_certificates_invalidated")})
    /\ certRelated' = FALSE
    /\ providerCerts' = <<>>
    /\ csrOut' = [h \in Hostnames |-> 0]
    /\ revOut' = {}
    /\ UNCHANGED <<hostname, configValid, ingressRelated, legacyRelated, nextId>>

\* A certificate the provider holds nears or passes its expiry, or is
\* invalidated for a reason of the provider's own.
CertNotice ==
    \E i \in 1..Len(providerCerts) :
        \E sig \in {CertSig("certificate_expiring", providerCerts[i], ""),
                    CertSig("certificate_invalidated", providerCerts[i], "expired"),
                    CertSig("certificate_invalidated", providerCerts[i], "other")} :
            /\ EnvStep({sig})
            /\ UNCHANGED <<hostname, configValid, ingressRelated, legacyRelated,
                           certRelated, providerCerts, nextId, csrOut, revOut>>

\* The provider declares every certificate invalid.
AllInvalidated ==
    /\ certRelated
    /\ EnvStep({Sig("all_certificates_invalidated")})
    /\ providerCerts' = <<>>
    /\ UNCHANGED <<hostname, configValid, ingressRelated, legacyRelated, certRelated,
                   nextId, csrOut, revOut>>

RunAction ==
    \E h \in Hostnames :
        /\ EnvStep({ActionSig(h)})
        /\ UNCHANGED <<hostname, configValid, ingressRelated, legacyRelated,
                       certRelated, providerCerts, nextId, csrOut, revOut>>

\* The provider answers a signing request with a certificate.
ProviderIssue ==
    \E h \in Hostnames :
        LET c == [id |-> nextId, host |-> h] IN
        /\ Idle
        /\ certRelated
        /\ csrOut[h] > 0
        /\ csrOut' = [csrOut EXCEPT ![h] = @ - 1]
        /\ providerCerts' = Append(providerCerts, c)
        /\ nextId' = nextId + 1
        /\ pending' = pending \cup {CertSig("certificate_available", c, "")}
        /\ quiet' = FALSE
        /\ pass' = NoPass
        /\ UNCHANGED <<installed, hostname, configValid, ingressRelated, legacyRelated,
                       certRelated, envSteps, status, revOut, tracked, expiring,
                       publishedUrl, haproxyConfig>>

\* The provider answers a revocation request: the certificate is gone from
\* what it reports, and the charm is told.
ProviderRevoke ==
    \E id \in revOut :
        LET hit == {i \in 1..Len(providerCerts) : providerCerts[i].id = id} IN
        /\ Idle
        /\ revOut' = revOut \ {id}
        /\ providerCerts' = SelectSeq(providerCerts, LAMBDA c : c.id # id)
        /\ pending' = pending \cup
               {CertSig("certificate_invalidated", providerCerts[i], "revoked") : i \in hit}
        /\ quiet' = FALSE
        /\ pass' = NoPass
        /\ UNCHANGED <<installed, hostname, configValid, ingressRelated, legacyRelated,
                       certRelated, nextId, envSteps, status, csrOut, tracked,
                       expiring, publishedUrl, haproxyConfig>>

(* --------------------------- specification ---------------------------- *)

\* The unit as deployed: the operator may have set the configuration and
\* declared the relations at deployment; nothing is installed yet, and the
\* hooks that tell the charm of each of these facts are due.
Init ==
    /\ installed = FALSE
    /\ hostname \in Hostnames \cup {NoHost}
    /\ configValid \in BOOLEAN
    /\ ingressRelated \in BOOLEAN
    /\ legacyRelated \in BOOLEAN
    /\ certRelated \in BOOLEAN
    /\ providerCerts = <<>>
    /\ nextId = 1
    /\ csrOut = [h \in Hostnames |-> 0]
    /\ revOut = {}
    /\ tracked = {}
    /\ expiring = {}
    /\ status = MaintenanceStatus(<<>>)
    /\ publishedUrl = NoUrl
    /\ haproxyConfig = NoMode
    /\ pending = {Sig("install"), Sig("config_changed")}
                 \cup (IF ingressRelated THEN {Sig("data_provided")} ELSE {})
                 \cup (IF legacyRelated THEN {Sig("http_backend_available")} ELSE {})
                 \cup (IF certRelated THEN {Sig("certificates_relation_joined")} ELSE {})
    /\ pass = NoPass
    /\ quiet = FALSE
    /\ envSteps = 0

Next ==
    \/ _on_install
    \/ _on_config_changed
    \/ _on_certificates_relation_joined
    \/ _on_certificate_available
    \/ _on_certificate_expiring
    \/ _on_certificate_invalidated
    \/ _on_all_certificate_invalidated
    \/ _on_get_certificate_action
    \/ _on_http_backend_available
    \/ _on_http_backend_removed
    \/ _on_ingress_data_provided
    \/ _on_ingress_data_removed
    \/ SetConfig
    \/ IngressJoin
    \/ IngressLeave
    \/ LegacyJoin
    \/ LegacyLeave
    \/ CertJoin
    \/ CertLeave
    \/ CertNotice
    \/ AllInvalidated
    \/ RunAction
    \/ ProviderIssue
    \/ ProviderRevoke

Spec == Init /\ [][Next]_vars

(* ------------------ the certificate lifecycle on its own --------------- *)

\* The hostname is changed to another well-formed one.
SetHostname ==
    \E h \in Hostnames \ {hostname} :
        /\ EnvWithin({Sig("config_changed")}, MaxLiveEnv)
        /\ hostname' = h
        /\ UNCHANGED <<configValid, ingressRelated, legacyRelated, certRelated,
                       providerCerts, nextId, csrOut, revOut>>

\* A certificate nears or passes its expiry.
CertExpiry ==
    \E i \in 1..Len(providerCerts) :
        \E sig \in {CertSig("certificate_expiring", providerCerts[i], ""),
                    CertSig("certificate_invalidated", providerCerts[i], "expired")} :
            /\ EnvWithin({sig}, MaxLiveEnv)
            /\ UNCHANGED <<hostname, configValid, ingressRelated, legacyRelated,
                           certRelated, providerCerts, nextId, csrOut, revOut>>

\* A unit with a valid configuration, a hostname, the certificates relation
\* and the ingress relation: what changes from here on is the hostname and
\* the certificates.
LiveInit ==
    /\ Init
    /\ configValid
    /\ hostname \in Hostnames
    /\ certRelated
    /\ ingressRelated
    /\ ~legacyRelated

LiveNext ==
    \/ _on_install
    \/ _on_config_changed
    \/ _on_certificates_relation_joined
    \/ _on_certificate_available
    \/ _on_certificate_expiring
    \/ _on_certificate_invalidated
    \/ _on_ingress_data_provided
    \/ SetHostname
    \/ CertExpiry
    \/ ProviderIssue
    \/ ProviderRevoke

\* Every queued signal is dispatched to its handler, and the provider
\* answers every signing request and every revocation request.
LiveFairness ==
    /\ WF_vars(_on_install)
    /\ WF_vars(_on_config_changed)
    /\ WF_vars(_on_certificates_relation_joined)
    /\ WF_vars(_on_certificate_available)
    /\ WF_vars(_on_certificate_expiring)
    /\ WF_vars(_on_certificate_invalidated)
    /\ WF_vars(_on_ingress_data_provided)
    /\ WF_vars(ProviderIssue)
    /\ WF_vars(ProviderRevoke)

LiveSpec == LiveInit /\ [][LiveNext]_vars /\ LiveFairness

\* The same fairness with the whole environment acting.
Fairness ==
    /\ LiveFairness
    /\ WF_vars(_on_all_certificate_invalidated)
    /\ WF_vars(_on_get_certificate_action)
    /\ WF_vars(_on_http_backend_available)
    /\ WF_vars(_on_http_backend_removed)
    /\ WF_vars(_on_ingress_data_removed)

FairSpec == Init /\ [][Next]_vars /\ Fairness

(* ------------------------------ claims -------------------------------- *)

\* A handler other than install has just returned.
PassRan == pass.signal \notin {"none", "install"}

\* The mode resolver ran in the pass that has just ended.
Resolved == pass.mode # NoMode

Range(seq) == {seq[i] : i \in 1..Len(seq)}
Ops(op) == {i \in 1..Len(pass.log) : pass.log[i].op = op}
Builds == Ops("reconcile_ingress") \cup Ops("reconcile_legacy") \cup Ops("reconcile_default")
Matching == {i \in 1..Len(providerCerts) : providerCerts[i].host = hostname}
Stale == {i \in 1..Len(providerCerts) : providerCerts[i].host # hostname}

\* C1 as stated: the mode resolver returns INVALID if and only if both the
\* ingress and the legacy relation are present, whatever the TLS state.
C1_InvalidIffBothRelated ==
    Resolved => (pass.mode = INVALID <=> (ingressRelated /\ legacyRelated))

\* C1 amended: the mode resolver returns INVALID if and only if both
\* relations are present, or the ingress relation alone is present and the
\* TLS validator fails; the TLS state changes nothing in the other cases.
C1_InvalidIffBothOrTlsNotReady ==
    Resolved =>
        /\ pass.mode = INVALID <=>
               \/ ingressRelated /\ legacyRelated
               \/ ingressRelated /\ ~TLSReady
        /\ ~ingressRelated => pass.mode # INVALID

C1_Witness ==
    Resolved /\ pass.mode = INVALID /\ ingressRelated /\ ~legacyRelated /\ ~TLSReady

\* C2: the mode the resolver returns is the table's entry for (ingress
\* related, legacy related, TLS validator outcome): both -> INVALID; ingress
\* only -> INGRESS if the validator succeeds, else INVALID; legacy only ->
\* LEGACY whatever the validator would say; neither -> NOPROXY.
C2_ModeTable ==
    Resolved =>
        /\ (ingressRelated /\ legacyRelated) => pass.mode = INVALID
        /\ (ingressRelated /\ ~legacyRelated /\ TLSReady) => pass.mode = INGRESS
        /\ (ingressRelated /\ ~legacyRelated /\ ~TLSReady) => pass.mode = INVALID
        /\ (~ingressRelated /\ legacyRelated) => pass.mode = LEGACY
        /\ (~ingressRelated /\ ~legacyRelated) => pass.mode = NOPROXY

C2_Witness ==
    Resolved /\ pass.mode = LEGACY /\ ~TLSReady

\* C3: when both relations are present, a pass that reconciles ends Blocked
\* with a status message naming both relations and runs no configuration
\* build, whatever the signal and whatever certificates are held.
C3_BothRelatedBlocked ==
    (Resolved /\ ingressRelated /\ legacyRelated) =>
        /\ pass.outcome = "Blocked"
        /\ status.kind = "blocked"
        /\ INGRESS_RELATION \in Range(status.msg)
        /\ REVERSE_PROXY_RELATION \in Range(status.msg)
        /\ Builds = {}

C3_Witness ==
    /\ Resolved /\ ingressRelated /\ legacyRelated
    /\ providerCerts # <<>>
    /\ pass.signal = "certificate_available"

\* C4: one run of _reconcile_certificates requests the revocation of exactly
\* the provider's certificates whose hostname differs from the desired one,
\* once each, and generates a key and then requests a certificate for the
\* desired hostname if and only if no certificate of the provider matches it.
C4_ReconcileCertificates ==
    pass.ranCerts =>
        /\ \A i \in 1..Len(providerCerts) :
               Cardinality({j \in Ops("request_certificate_revocation") :
                               pass.log[j].cert = providerCerts[i].id})
                   = IF providerCerts[i].host # hostname THEN 1 ELSE 0
        /\ Cardinality(Ops("request_certificate_revocation")) = Cardinality(Stale)
        /\ Cardinality(Ops("generate_private_key")) = IF Matching = {} THEN 1 ELSE 0
        /\ Cardinality(Ops("request_certificate")) = IF Matching = {} THEN 1 ELSE 0
        /\ \A j \in Ops("generate_private_key") \cup Ops("request_certificate") :
               pass.log[j].host = hostname
        /\ \A j \in Ops("generate_private_key"), k \in Ops("request_certificate") : j < k

C4_Witness ==
    pass.ranCerts /\ Stale # {} /\ Matching = {}

\* C5 as stated: a run of _reconcile_certificates that follows another with
\* no external change in between requests no revocation, no key and no
\* certificate.
C5_SecondRunIssuesNothing ==
    pass.rerun =>
        /\ Ops("request_certificate_revocation") = {}
        /\ Ops("generate_private_key") = {}
        /\ Ops("request_certificate") = {}

\* C6: when _reconcile_certificates has run, at most one certificate is the
\* current one, and it is one of the provider's certificates for the desired
\* hostname whenever there is any.
C6_AtMostOneCurrent ==
    pass.ranCerts =>
        /\ Cardinality(pass.current) <= 1
        /\ pass.current \subseteq {providerCerts[i] : i \in Matching}
        /\ Matching # {} => pass.current # {}

C6_Witness ==
    pass.ranCerts /\ Cardinality(Matching) >= 2

\* C7 as stated: a config-changed pass after a hostname change requests one
\* revocation per certificate of the old hostname and one certificate for
\* the new one, revocations first, and no pass repeats a revocation or a
\* signing request that is still with the provider.
C7_OneRevocationOneRequest ==
    pass.ranCerts =>
        /\ Cardinality(Ops("request_certificate_revocation")) = Cardinality(Stale)
        /\ \A j \in Ops("request_certificate_revocation"), k \in Ops("request_certificate") :
               j < k
        /\ \A j \in Ops("request_certificate_revocation") \cup Ops("request_certificate") :
               pass.log[j].arg # Repeated

C10_ConfigChangedPublishesUrl ==
    (pass.signal = "config_changed" /\ configValid /\ ingressRelated /\ ~legacyRelated
        /\ hostname # NoHost /\ Matching # {}) =>
        /\ pass.mode = INGRESS
        /\ pass.outcome = "Applied"
        /\ status = ActiveStatus
        /\ publishedUrl = <<"https://", hostname, "/", AppModel, "-", AppName, "/">>

\* The unit holds a certificate for the desired hostname: one of the
\* certificates _reconcile_certificates reads matches it.
HoldsMatching == Matching # {}

\* The unit can act on certificates: the configuration is valid and TLS
\* information can be constructed.
CanReconcile == configValid /\ TLSReady

\* C8: with every signal dispatched and every request answered, whenever
\* the unit can act on certificates it comes to hold a certificate matching
\* the desired hostname (or the configuration changes again), and no pass
\* keeps more than one certificate as current.
C8_EventuallyOneMatching ==
    /\ (CanReconcile ~> (HoldsMatching \/ ~CanReconcile))
    /\ [](Cardinality(pass.current) <= 1)

\* The hostname went h1 -> h2 -> h1 while the revocation of the h1
\* certificate is still with the provider, and a certificate is held again
\* after the provider has answered it.
C8_Witness ==
    /\ HoldsMatching /\ CanReconcile
    /\ envSteps >= 2
    /\ revOut = {}
    /\ \E i \in Matching : providerCerts[i].id > 1
    /\ \A i \in 1..Len(providerCerts) : providerCerts[i].id # 1

\* C11 as stated: a pass for an all-certificates-invalidated signal that
\* resolves to INGRESS drops every tracked certificate, requests a
\* certificate for the desired hostname, and does not end Applied with
\* status active (nothing has arrived yet when that pass ends).
C11_NotAppliedUntilCertificate ==
    (pass.signal = "all_certificates_invalidated" /\ pass.mode = INGRESS) =>
        /\ tracked = {}
        /\ \E j \in Ops("request_certificate") : pass.log[j].host = hostname
        /\ pass.outcome # "Applied"
        /\ status # ActiveStatus

\* The body of a certificate handler ran to its end.
BodyRan == pass.outcome = "Handled"

\* C12: a certificate-invalidated pass with reason "revoked" generates a key
\* and requests a certificate for the certificate's hostname at once; a
\* certificate-invalidated pass with reason "expired" and a
\* certificate-expiring pass mark the certificate EXPIRING, set a
\* maintenance status naming its hostname and request nothing of the
\* provider; none of the three runs a configuration build.
C12_InvalidatedAndExpiring ==
    LET h == get_hostname_from_cert(pass.cert) IN
    /\ (BodyRan /\ pass.signal = "certificate_invalidated" /\ pass.reason = "revoked") =>
           /\ \E j \in Ops("generate_private_key"), k \in Ops("request_certificate") :
                  j < k /\ pass.log[j].host = h /\ pass.log[k].host = h
           /\ pass.cert \notin tracked
           /\ Builds = {}
    /\ (BodyRan /\ \/ pass.signal = "certificate_expiring"
                   \/ pass.signal = "certificate_invalidated" /\ pass.reason = "expired") =>
           /\ pass.cert \in expiring
           /\ status = MaintenanceStatus(WaitingCertMsg(h))
           /\ h \in Range(status.msg)
           /\ Ops("request_certificate_revocation") = {}
           /\ Ops("request_certificate") = {}
           /\ Ops("generate_private_key") = {}
           /\ Builds = {}

C12_Witness ==
    /\ BodyRan /\ pass.signal = "certificate_invalidated" /\ pass.reason = "revoked"
    /\ get_hostname_from_cert(pass.cert) = hostname
    /\ Ops("request_certificate") # {}

\* The signal the pass that has just ended was run for.
PassSig ==
    [kind |-> pass.signal, cert |-> pass.cert, reason |-> pass.reason,
     param |-> pass.param]

\* The pass that has just ended ran a handler wrapped in a deferral policy.
WrappedPass == PassRan /\ pass.signal # "get_certificate_action"

NeverDropped ==
    {"certificates_relation_joined", "certificate_available", "certificate_expiring",
     "certificate_invalidated", "data_provided"}
NeverRequeued ==
    {"config_changed", "all_certificates_invalidated", "http_backend_available",
     "http_backend_removed", "data_removed"}

\* C13: a wrapped handler's body runs if and only if the configuration is
\* valid and, when its policy blocks on TLS, TLS information can be
\* constructed; otherwise the signal stays queued when the policy defers
\* and is dropped when it does not.  Signals of the five deferring handlers
\* are never dropped; signals of the five others are never re-queued.
C13_DeferralPolicy ==
    WrappedPass =>
        LET defer == Policy(pass.signal)[1]
            block == Policy(pass.signal)[2]
            met == configValid /\ (block => TLSReady)
        IN  /\ met <=> pass.outcome \notin {"Deferred", "Dropped"}
            /\ (~met /\ defer) => (pass.outcome = "Deferred" /\ PassSig \in pending)
            /\ (~met /\ ~defer) => (pass.outcome = "Dropped" /\ PassSig \notin pending)
            /\ pass.signal \in NeverDropped => pass.outcome # "Dropped"
            /\ pass.signal \in NeverRequeued =>
                   (pass.outcome # "Deferred" /\ PassSig \notin pending)
            /\ pass.signal \in NeverDropped \cup NeverRequeued

C13_Witness ==
    /\ WrappedPass /\ configValid /\ ~TLSReady
    /\ pass.signal = "data_removed" /\ pass.outcome = "Dropped"
    /\ \E sig \in pending : sig.kind = "data_provided"

\* C14 as stated: a pass that ends Blocked or Deferred calls no
\* configuration build, generates no key, requests no certificate and no
\* revocation, and publishes no URL.
C14_BlockedOrDeferredNoSideEffect ==
    (PassRan /\ pass.outcome \in {"Blocked", "Deferred"}) =>
        /\ Builds = {}
        /\ Ops("generate_private_key") = {}
        /\ Ops("request_certificate") = {}
        /\ Ops("request_certificate_revocation") = {}
        /\ Ops("publish_url") = {}

\* C15 as stated: no handler ends with an error raised out of it.
C15_NoUnhandledError ==
    PassRan => ~pass.raised

\* The status reports the precondition the pass found unmet.
StatusNamesUnmet ==
    /\ status.kind \in {"blocked", "maintenance"}
    /\ status.msg =
           IF pass.outcome = "Deferred"
           THEN (IF ~configValid THEN InvalidConfigMsg ELSE TLSNotReadyMsg)
           ELSE (IF ingressRelated /\ legacyRelated THEN BothRelatedMsg
                 ELSE TLSNotReadyMsg)
    /\ status.msg # <<>>

\* C16 as stated: a Blocked or Deferred pass leaves a blocked or maintenance
\* status naming the unmet precondition, and status active is not visible
\* after a pass that ended Blocked or Deferred, dropped its signal or raised
\* an error.
C16_ActiveOnlyAfterApplied ==
    /\ (PassRan /\ pass.outcome \in {"Blocked", "Deferred"}) => StatusNamesUnmet
    /\ (PassRan /\ pass.outcome \in {"Blocked", "Deferred", "Dropped", "Error"}) =>
           status # ActiveStatus

\* C17 as stated: a URL is published only in a pass that resolved to
\* INGRESS and ended Applied, and it is https://<hostname>/<model>-<app>/.
C17_UrlOnlyWhenApplied ==
    Ops("publish_url") # {} =>
        /\ pass.mode = INGRESS
        /\ pass.outcome = "Applied"
        /\ publishedUrl = <<"https://", hostname, "/", AppModel, "-", AppName, "/">>

\* The build haproxy_service offers for a mode.
BuildOf(mode) ==
    CASE mode = INGRESS -> "reconcile_ingress"
      [] mode = LEGACY -> "reconcile_legacy"
      [] mode = NOPROXY -> "reconcile_default"
      [] OTHER -> "none"

\* C18: the status becomes active only in a pass that ends Applied; such a
\* pass resolved to a mode other than INVALID and called exactly one
\* configuration build, the one of that mode; and the mode of a pass is the
\* resolver's value for the relation facts as they are in that pass.
C18_ActiveOnlyAfterOneBuild ==
    /\ [][(status' = ActiveStatus /\ status # ActiveStatus) =>
              pass'.outcome = "Applied"]_vars
    /\ [](pass.outcome = "Applied" =>
              /\ pass.mode \in {INGRESS, LEGACY, NOPROXY}
              /\ Cardinality(Builds) = 1
              /\ \A j \in Builds : pass.log[j].op = BuildOf(pass.mode)
              /\ haproxyConfig = pass.mode
              /\ status = ActiveStatus)
    /\ [](Resolved =>
              pass.mode = _validate_state(ingressRelated, legacyRelated, TLSReady))

C18_Witness ==
    /\ pass.outcome = "Applied" /\ pass.mode = LEGACY /\ status = ActiveStatus
    /\ pass.signal = "http_backend_available"
    /\ envSteps >= 1

\* C19 as stated: when no signal is queued and the status is active, the
\* configuration haproxy_service built last is the one of the mode the
\* resolver gives for the relation facts as they are.
C19_AppliedModeCurrent ==
    (installed /\ pending = {} /\ status = ActiveStatus) =>
        haproxyConfig = _validate_state(ingressRelated, legacyRelated, TLSReady)

====
